---------------------------- MODULE Spec2Model ----------------------------
(***************************************************************************)
(* Model of assets/app.js, the portfolio engine of stefone.com:            *)
(* normalizeProject / loadProjects, the list view (renderProjectsList)     *)
(* with its search / category / tag / clear controls, and the featured     *)
(* view (renderFeatured).                                                  *)
(*                                                                         *)
(* A JavaScript string is a sequence of one-character strings.  A JSON     *)
(* value met in a record field is a record [k, s]: k is its kind and s the *)
(* text String() yields for it (the characters of a string, the decimal    *)
(* digits of a number, the joined elements of an array).                   *)
(***************************************************************************)
EXTENDS Integers, Sequences, FiniteSets, TLC

(***************************************************************************)
(* Characters and the string built-ins the script uses.                    *)
(***************************************************************************)
LowerCase == <<"a","b","c","d","e","f","g","h","i","j","k","l","m",
               "n","o","p","q","r","s","t","u","v","w","x","y","z">>

UpperCase == <<"A","B","C","D","E","F","G","H","I","J","K","L","M",
               "N","O","P","Q","R","S","T","U","V","W","X","Y","Z">>

Digits == <<"0","1","2","3","4","5","6","7","8","9">>

Range(f) == { f[i] : i \in DOMAIN f }

Chars == Range(LowerCase) \cup Range(UpperCase) \cup Range(Digits)
           \cup {" ", "-", "[", "]"}

IndexIn(seq, c) == CHOOSE i \in DOMAIN seq : seq[i] = c

\* String.prototype.toLowerCase, one character
LowerOf == [ c \in Chars |->
               IF c \in Range(UpperCase) THEN LowerCase[IndexIn(UpperCase, c)]
               ELSE c ]

\* UTF-16 code unit of a character (what "lexicographic" compares)
CodeUnit == [ c \in Chars |->
               CASE c = " " -> 32
                 [] c = "-" -> 45
                 [] c \in Range(Digits) -> 47 + IndexIn(Digits, c)
                 [] c \in Range(UpperCase) -> 64 + IndexIn(UpperCase, c)
                 [] c = "[" -> 91
                 [] c = "]" -> 93
                 [] OTHER -> 96 + IndexIn(LowerCase, c) ]

\* Collation of String.prototype.localeCompare (root locale): the primary
\* weight orders white space, punctuation, digits, then letters without
\* regard to case; the tertiary weight puts lower case before upper case.
PrimaryWeight == [ c \in Chars |->
               CASE c = " " -> 1
                 [] c = "-" -> 2
                 [] c = "[" -> 3
                 [] c = "]" -> 4
                 [] c \in Range(Digits) -> 9 + IndexIn(Digits, c)
                 [] c \in Range(UpperCase) -> 30 + IndexIn(UpperCase, c)
                 [] OTHER -> 30 + IndexIn(LowerCase, c) ]

TertiaryWeight == [ c \in Chars |-> IF c \in Range(UpperCase) THEN 1 ELSE 0 ]

Min(a, b) == IF a <= b THEN a ELSE b

\* three-way lexicographic comparison of two strings under a weight
RECURSIVE CompareBy(_, _, _)
CompareBy(w, a, b) ==
  IF a = <<>> /\ b = <<>> THEN 0
  ELSE IF a = <<>> THEN -1
  ELSE IF b = <<>> THEN 1
  ELSE IF w[Head(a)] < w[Head(b)] THEN -1
  ELSE IF w[Head(a)] > w[Head(b)] THEN 1
  ELSE CompareBy(w, Tail(a), Tail(b))

localeCompare(a, b) ==
  LET p == CompareBy(PrimaryWeight, a, b)
  IN  IF p # 0 THEN p ELSE CompareBy(TertiaryWeight, a, b)

\* String.prototype.trim
RECURSIVE TrimLeft(_)
TrimLeft(s) == IF s # <<>> /\ Head(s) = " " THEN TrimLeft(Tail(s)) ELSE s

RECURSIVE TrimRight(_)
TrimRight(s) ==
  IF s # <<>> /\ s[Len(s)] = " " THEN TrimRight(SubSeq(s, 1, Len(s) - 1)) ELSE s

trim(s) == TrimRight(TrimLeft(s))

toLowerCase(s) == [ i \in 1..Len(s) |-> LowerOf[s[i]] ]

\* String.prototype.includes
includes(hay, q) ==
  \E i \in 0..(Len(hay) - Len(q)) : SubSeq(hay, i + 1, i + Len(q)) = q

\* Array.prototype.join(" ")
RECURSIVE joinSpace(_)
joinSpace(parts) ==
  IF parts = <<>> THEN <<>>
  ELSE IF Len(parts) = 1 THEN parts[1]
  ELSE parts[1] \o <<" ">> \o joinSpace(Tail(parts))


(***************************************************************************)
(* Parsed JSON values and their JavaScript coercions.                      *)
(***************************************************************************)
Absent  == [k |-> "absent", s |-> <<>>]            \* property not present
Null    == [k |-> "null",   s |-> <<>>]
False   == [k |-> "false",  s |-> <<>>]
True    == [k |-> "true",   s |-> <<>>]
Num(d)  == [k |-> "num",    s |-> d]               \* d: its decimal digits
Str(s)  == [k |-> "str",    s |-> s]
Arr(j)  == [k |-> "arr",    s |-> j]               \* j: its elements joined
Obj     == [k |-> "obj",    s |-> <<>>]            \* a plain nested object
\* an object whose own "toString" member hides Object.prototype.toString
\* with a value that is no function, e.g. {"toString": 1}: String() of it
\* raises a TypeError
BadObj  == [k |-> "badobj", s |-> <<>>]

\* ToBoolean, as used by ||, !! and the conditional operator
Truthy(v) ==
  CASE v.k \in {"absent", "null", "false"} -> FALSE
    [] v.k = "num" -> v.s # <<"0">>
    [] v.k = "str" -> v.s # <<>>
    [] OTHER -> TRUE

\* String(v), for the values on which it returns
String(v) ==
  CASE v.k = "absent" -> <<"u","n","d","e","f","i","n","e","d">>
    [] v.k = "null"   -> <<"n","u","l","l">>
    [] v.k = "false"  -> <<"f","a","l","s","e">>
    [] v.k = "true"   -> <<"t","r","u","e">>
    [] v.k = "obj"    -> <<"[","o","b","j","e","c","t"," ",
                           "O","b","j","e","c","t","]">>
    [] OTHER          -> v.s

StringThrows(v) == v.k = "badobj"

\* String(v || dflt)
StringOr(v, dflt) == IF Truthy(v) THEN String(v) ELSE dflt

Other == <<"O","t","h","e","r">>

All == <<"A","l","l">>

\* the tags member of a raw record: its kind and, for an array, its elements
NoTags      == [k |-> "absent", items |-> <<>>]
TagsArr(ts) == [k |-> "arr", items |-> ts]
TagsStr     == [k |-> "str", items |-> <<>>]       \* "tags": "a,b"

\* One element of the parsed document.  k is "obj" for an object; for null,
\* a number, a string, a boolean or an array every member below is Absent
\* (reading a missing property of a primitive or an array gives undefined).
RawRecord(t, sl, d, tg, c, f, dt) ==
  [k |-> "obj", title |-> t, slug |-> sl, description |-> d, tags |-> tg,
   category |-> c, featured |-> f, date |-> dt]

RawOf(kind) ==
  [k |-> kind, title |-> Absent, slug |-> Absent, description |-> Absent,
   tags |-> NoTags, category |-> Absent, featured |-> Absent, date |-> Absent]

NonEmpty(s) == s # <<>>

TrimString(v) == trim(String(v))

\* p.tags.map(t => String(t).trim()).filter(Boolean), or [] for a non-array
normalizeTags(tg) ==
  IF tg.k = "arr"
    THEN SelectSeq([ i \in 1..Len(tg.items) |-> TrimString(tg.items[i]) ], NonEmpty)
    ELSE <<>>

\* normalizeProject raises a TypeError: p.title of null, or String() of an
\* object that cannot be converted to a primitive
normalizeThrows(p) ==
  \/ p.k = "null"
  \/ \E v \in {p.title, p.slug, p.description, p.category, p.date} :
        Truthy(v) /\ StringThrows(v)
  \/ p.tags.k = "arr" /\ \E i \in DOMAIN p.tags.items : StringThrows(p.tags.items[i])

normalizeCategory(p) ==
  LET c == trim(StringOr(p.category, Other))
  IN  IF c # <<>> THEN c ELSE Other

\* The record normalizeProject returns when it returns.  thumbnail and link
\* only feed the card's image and href and are left out.
normalizeProject(p) ==
  [title       |-> trim(StringOr(p.title, <<>>)),
   slug        |-> trim(StringOr(p.slug, <<>>)),
   description |-> trim(StringOr(p.description, <<>>)),
   tags        |-> normalizeTags(p.tags),
   category    |-> normalizeCategory(p),
   featured    |-> Truthy(p.featured),
   date        |-> trim(StringOr(p.date, <<>>))]

\* mutant: the filter of loadProjects tests the title alone
hasTitleOnly(n) == n.title # <<>>

\* p => p.title && p.slug
hasTitleAndSlug(n) == n.title # <<>> /\ n.slug # <<>>

\* The parsed document: isArray tells whether its top-level value is an array
arrayOrEmpty(data) == IF data.isArray THEN data.items ELSE <<>>

loadProjectsThrows(data) ==
  \E i \in DOMAIN arrayOrEmpty(data) : normalizeThrows(arrayOrEmpty(data)[i])

\* (Array.isArray(data) ? data : []).map(normalizeProject).filter(...)
loadProjects(data) ==
  LET items == arrayOrEmpty(data)
  IN  SelectSeq([ i \in 1..Len(items) |-> normalizeProject(items[i]) ], hasTitleAndSlug)

\* messages of the errors loadProjects is rejected with
MsgStatus  == "Couldn't load projects.json"
MsgNetwork == "Failed to fetch"
MsgSyntax  == "Unexpected token in JSON"
MsgNull    == "Cannot read properties of null (reading 'title')"
MsgConvert == "Cannot convert object to primitive value"

\* the message of the TypeError of the first element that raises one
loadProjectsError(data) ==
  LET items == arrayOrEmpty(data)
      first == CHOOSE i \in DOMAIN items :
                 /\ normalizeThrows(items[i])
                 /\ \A j \in 1..(i - 1) : ~normalizeThrows(items[j])
  IN  IF items[first].k = "null" THEN MsgNull ELSE MsgConvert


(***************************************************************************)
(* Sorting and filtering of the list view.                                 *)
(***************************************************************************)
\* mutant: two dates are compared in ascending order
sortCompareAscending(a, b) ==
  IF a.date # <<>> /\ b.date # <<>> THEN localeCompare(a.date, b.date)
  ELSE IF a.date # <<>> THEN -1
  ELSE IF b.date # <<>> THEN 1
  ELSE localeCompare(a.title, b.title)

\* the comparator handed to sort() by the load handler
sortCompare(a, b) ==
  IF a.date # <<>> /\ b.date # <<>> THEN localeCompare(b.date, a.date)
  ELSE IF a.date # <<>> THEN -1
  ELSE IF b.date # <<>> THEN 1
  ELSE localeCompare(a.title, b.title)

\* x put into an already sorted sequence, after every element it does not
\* precede (Array.prototype.sort is stable)
RECURSIVE insertStable(_, _)
insertStable(sorted, x) ==
  IF sorted = <<>> THEN <<x>>
  ELSE IF sortCompare(x, Head(sorted)) < 0 THEN <<x>> \o sorted
  ELSE <<Head(sorted)>> \o insertStable(Tail(sorted), x)

RECURSIVE sortFrom(_, _)
sortFrom(sorted, rest) ==
  IF rest = <<>> THEN sorted
  ELSE sortFrom(insertStable(sorted, Head(rest)), Tail(rest))

\* [...projects].sort(comparator)
sortProjects(projects) == sortFrom(<<>>, projects)

RECURSIVE ascending(_)
ascending(S) ==
  IF S = {} THEN <<>>
  ELSE LET m == CHOOSE x \in S : \A y \in S : localeCompare(x, y) <= 0
       IN  <<m>> \o ascending(S \ {m})

\* [...new Set(arr.filter(Boolean))].sort((a,b) => a.localeCompare(b))
uniqueSorted(arr) == ascending({ arr[i] : i \in { j \in DOMAIN arr : arr[j] # <<>> } })

RECURSIVE flatten(_)
flatten(seqs) == IF seqs = <<>> THEN <<>> ELSE Head(seqs) \o flatten(Tail(seqs))

\* String(s || "").toLowerCase()
normalizeText(s) == toLowerCase(s)

haystack(project) ==
  joinSpace([ i \in 1..(3 + Len(project.tags)) |->
                normalizeText(CASE i = 1 -> project.title
                                [] i = 2 -> project.description
                                [] i = 3 -> project.category
                                [] OTHER -> project.tags[i - 3]) ])

matches(project, query) ==
  LET q == trim(normalizeText(query))
  IN  IF q = <<>> THEN TRUE ELSE includes(haystack(project), q)

catOk(p, cat) == cat = All \/ p.category = cat

tagOk(p, tag) == tag = All \/ tag \in Range(p.tags)

\* mutant: the tag criterion is left out of the filter
passesWithoutTag(p, q, cat, tag) == catOk(p, cat) /\ matches(p, q)

\* the predicate of allProjects.filter in applyFilters
passes(p, q, cat, tag) == catOk(p, cat) /\ tagOk(p, tag) /\ matches(p, q)

filterProjects(projects, q, cat, tag) ==
  LET keep(p) == passes(p, q, cat, tag)
  IN  SelectSeq(projects, keep)

(***************************************************************************)
(* The page.  A render region holds a sequence of nodes: the card of a     *)
(* project (projectCard, stood for by the project it shows) or the notice  *)
(* of the list view, whose text is its sequence of text fragments.         *)
(***************************************************************************)
NoProject ==
  [title |-> <<>>, slug |-> <<>>, description |-> <<>>, tags |-> <<>>,
   category |-> <<>>, featured |-> FALSE, date |-> <<>>]

projectCard(p) == [kind |-> "card", p |-> p, text |-> <<>>]

\* mutant: the notice leaves out the error's message
noticeWithoutMessage(msg) ==
  [kind |-> "notice", p |-> NoProject,
   text |-> <<"Projects couldn't load.", "start-local.bat",
              "http://localhost:8000", "Error: ">>]

notice(msg) ==
  [kind |-> "notice", p |-> NoProject,
   text |-> <<"Projects couldn't load.", "start-local.bat",
              "http://localhost:8000", "Error: ", msg>>]

cardsOf(projects) == [ i \in 1..Len(projects) |-> projectCard(projects[i]) ]

\* countEl before the script writes to it
NoCount == [visible |-> -1, total |-> -1]

VARIABLES
  doc,          \* what projects.json parses to: [isArray, items]
  dom,          \* which of the elements looked up by id the page has
  limit,        \* the limit the featured view is mounted with
  lpc,          \* list view: init, noroot, fetching, parsing, resolved,
                \*            rejected, ready, failed
  lfetches,     \* list view: fetches issued
  lvalue,       \* list view: the value its loadProjects() resolved with
  lerr,         \* list view: the message its loadProjects() was rejected with
  allProjects,  \* list view closure
  activeTag,    \* list view closure
  searchValue,  \* searchInput.value
  catValue,     \* categorySelect.value
  catOptions,   \* option values of categorySelect
  tagButtons,   \* data-tag of the buttons of tagsWrap
  root,         \* children of the list view's render region
  countText,    \* countEl.textContent
  lastHandler,  \* list view: the handler that ran last (none, load, catch,
                \*            input, change, tag, clear)
  fpc,          \* featured view: init, noroot, fetching, parsing, resolved,
                \*                rejected, done, failed
  ffetches,     \* featured view: fetches issued
  fvalue,       \* featured view: the value its loadProjects() resolved with
  ferr,         \* featured view: the message of its rejection
  froot         \* children of the featured view's render region

inputs == <<doc, dom, limit>>
listVars == <<lpc, lfetches, lvalue, lerr, allProjects, activeTag, searchValue,
              catValue, catOptions, tagButtons, root, countText, lastHandler>>
featVars == <<fpc, ffetches, fvalue, ferr, froot>>
vars == <<inputs, listVars, featVars>>


(***************************************************************************)
(* The list view: renderProjectsList.                                      *)
(***************************************************************************)
\* const q / const cat of applyFilters, read from the controls that exist
queryOf(sv) == IF dom.searchInput THEN sv ELSE <<>>

catOf(cv) == IF dom.categorySelect THEN cv ELSE All

\* mutant: applyFilters renders without looking at the category
applyFiltersRootAnyCategory(projects, sv, cv, tag) ==
  cardsOf(filterProjects(projects, queryOf(sv), All, tag))

\* what applyFilters leaves in the render region and in countEl
applyFiltersRoot(projects, sv, cv, tag) ==
  cardsOf(filterProjects(projects, queryOf(sv), catOf(cv), tag))

applyFiltersCount(projects, sv, cv, tag, old) ==
  IF dom.countEl
    THEN [visible |-> Len(filterProjects(projects, queryOf(sv), catOf(cv), tag)),
          total   |-> Len(projects)]
    ELSE old

\* a DOM event or a network completion is a task: it runs only when no
\* promise reaction (a then or catch handler) is waiting
NoReactionPending ==
  /\ lpc \notin {"resolved", "rejected"}
  /\ fpc \notin {"resolved", "rejected"}

ListMount ==
  /\ lpc = "init"
  /\ IF dom.projectsRoot
       THEN lpc' = "fetching" /\ lfetches' = lfetches + 1
       ELSE lpc' = "noroot" /\ lfetches' = lfetches
  /\ UNCHANGED <<lvalue, lerr, allProjects, activeTag, searchValue, catValue,
                 catOptions, tagButtons, root, countText>>
  /\ UNCHANGED lastHandler
  /\ UNCHANGED <<inputs, featVars>>

\* await fetch(...): the response arrives, or the request fails, or the
\* response is not ok
ListFetchSettle ==
  /\ lpc = "fetching"
  /\ NoReactionPending
  /\ \E outcome \in {"ok", "status", "network"} :
       CASE outcome = "ok"     -> lpc' = "parsing" /\ lerr' = lerr
         [] outcome = "status" -> lpc' = "rejected" /\ lerr' = MsgStatus
         [] OTHER              -> lpc' = "rejected" /\ lerr' = MsgNetwork
  /\ UNCHANGED <<lfetches, lvalue, allProjects, activeTag, searchValue, catValue,
                 catOptions, tagButtons, root, countText>>
  /\ UNCHANGED lastHandler
  /\ UNCHANGED <<inputs, featVars>>

\* await res.json(), then map(normalizeProject).filter(...)
ListJsonSettle ==
  /\ lpc = "parsing"
  /\ NoReactionPending
  /\ \E parsed \in BOOLEAN :
       IF ~parsed THEN lpc' = "rejected" /\ lerr' = MsgSyntax /\ lvalue' = lvalue
       ELSE IF loadProjectsThrows(doc)
         THEN lpc' = "rejected" /\ lerr' = loadProjectsError(doc) /\ lvalue' = lvalue
       ELSE lpc' = "resolved" /\ lerr' = lerr /\ lvalue' = loadProjects(doc)
  /\ UNCHANGED <<lfetches, allProjects, activeTag, searchValue, catValue,
                 catOptions, tagButtons, root, countText>>
  /\ UNCHANGED lastHandler
  /\ UNCHANGED <<inputs, featVars>>

\* loadProjects().then(projects => { ... })
ListThen ==
  /\ lpc = "resolved"
  /\ lpc' = "ready"
  /\ allProjects' = sortProjects(lvalue)
  /\ IF dom.categorySelect
       THEN /\ catOptions' = <<All>> \o
                 uniqueSorted([ i \in 1..Len(allProjects') |-> allProjects'[i].category ])
            /\ catValue' = All
       ELSE UNCHANGED <<catOptions, catValue>>
  /\ IF dom.tagsWrap
       THEN /\ tagButtons' = <<All>> \o
                 uniqueSorted(flatten([ i \in 1..Len(allProjects') |-> allProjects'[i].tags ]))
            /\ activeTag' = All
       ELSE UNCHANGED <<tagButtons, activeTag>>
  /\ root' = applyFiltersRoot(allProjects', searchValue, catValue', activeTag')
  /\ countText' = applyFiltersCount(allProjects', searchValue, catValue', activeTag', countText)
  /\ UNCHANGED <<lfetches, lvalue, lerr, searchValue>>
  /\ lastHandler' = "load"
  /\ UNCHANGED <<inputs, featVars>>

\* .catch(err => { root.innerHTML = ""; root.appendChild(notice) })
ListCatch ==
  /\ lpc = "rejected"
  /\ lpc' = "failed"
  /\ root' = <<notice(lerr)>>
  /\ UNCHANGED <<lfetches, lvalue, lerr, allProjects, activeTag, searchValue,
                 catValue, catOptions, tagButtons, countText>>
  /\ lastHandler' = "catch"
  /\ UNCHANGED <<inputs, featVars>>

\* the texts a user types into the search input
Queries == { <<>>, <<"a">>, <<"B">>, <<" ", "a">>, <<"x">> }

\* the user edits the search input; the "input" listener exists once loaded
TypeInput ==
  /\ dom.searchInput
  /\ NoReactionPending
  /\ \E q \in Queries \ {searchValue} :
       /\ searchValue' = q
       /\ IF lpc = "ready"
            THEN /\ root' = applyFiltersRoot(allProjects, q, catValue, activeTag)
                 /\ countText' = applyFiltersCount(allProjects, q, catValue, activeTag, countText)
            ELSE UNCHANGED <<root, countText>>
  /\ UNCHANGED <<lpc, lfetches, lvalue, lerr, allProjects, activeTag, catValue,
                 catOptions, tagButtons>>
  /\ lastHandler' = IF lpc = "ready" THEN "input" ELSE lastHandler
  /\ UNCHANGED <<inputs, featVars>>

\* the user picks another option of the category selector (the options the
\* page had before the load are replaced by the load handler, which leaves
\* the first one, "All", selected)
ChangeCategory ==
  /\ dom.categorySelect
  /\ lpc = "ready"
  /\ NoReactionPending
  /\ \E c \in Range(catOptions) \ {catValue} :
       /\ catValue' = c
       /\ root' = applyFiltersRoot(allProjects, searchValue, c, activeTag)
       /\ countText' = applyFiltersCount(allProjects, searchValue, c, activeTag, countText)
  /\ UNCHANGED <<lpc, lfetches, lvalue, lerr, allProjects, activeTag, searchValue,
                 catOptions, tagButtons>>
  /\ lastHandler' = "change"
  /\ UNCHANGED <<inputs, featVars>>

\* the user clicks a tag button: setActiveTag(tag)
ClickTag ==
  /\ dom.tagsWrap
  /\ lpc = "ready"
  /\ NoReactionPending
  /\ \E t \in Range(tagButtons) :
       /\ activeTag' = t
       /\ root' = applyFiltersRoot(allProjects, searchValue, catValue, t)
       /\ countText' = applyFiltersCount(allProjects, searchValue, catValue, t, countText)
  /\ UNCHANGED <<lpc, lfetches, lvalue, lerr, allProjects, searchValue, catValue,
                 catOptions, tagButtons>>
  /\ lastHandler' = "tag"
  /\ UNCHANGED <<inputs, featVars>>

\* the values the clear handler leaves in the controls
clearedSearch(sv) == IF dom.searchInput THEN <<>> ELSE sv

clearedCategory(cv) == IF dom.categorySelect THEN All ELSE cv

\* mutant: the clear handler leaves the active tag as it is
clearedTagKept(tag) == tag

clearedTag(tag) == All

\* the user clicks the clear button
ClickClear ==
  /\ dom.clearBtn
  /\ lpc = "ready"
  /\ NoReactionPending
  /\ searchValue' = clearedSearch(searchValue)
  /\ catValue' = clearedCategory(catValue)
  /\ activeTag' = clearedTag(activeTag)
  /\ root' = applyFiltersRoot(allProjects, searchValue', catValue', activeTag')
  /\ countText' = applyFiltersCount(allProjects, searchValue', catValue', activeTag', countText)
  /\ UNCHANGED <<lpc, lfetches, lvalue, lerr, allProjects, catOptions, tagButtons>>
  /\ lastHandler' = "clear"
  /\ UNCHANGED <<inputs, featVars>>

(***************************************************************************)
(* The featured view: renderFeatured.                                      *)
(***************************************************************************)
Max(a, b) == IF a >= b THEN a ELSE b

\* Array.prototype.slice(0, n)
slice0(seq, n) ==
  IF n >= 0 THEN SubSeq(seq, 1, Min(n, Len(seq)))
  ELSE SubSeq(seq, 1, Max(Len(seq) + n, 0))

isFeatured(p) == p.featured

\* mutant: no fall back to the first records when none is featured
featuredListWithoutFallback(projects, lim) ==
  slice0(SelectSeq(projects, isFeatured), lim)

featuredList(projects, lim) ==
  LET featured == slice0(SelectSeq(projects, isFeatured), lim)
  IN  IF Len(featured) # 0 THEN featured ELSE slice0(projects, lim)

FeatMount ==
  /\ fpc = "init"
  /\ IF dom.featuredRoot
       THEN fpc' = "fetching" /\ ffetches' = ffetches + 1
       ELSE fpc' = "noroot" /\ ffetches' = ffetches
  /\ UNCHANGED <<fvalue, ferr, froot>>
  /\ UNCHANGED <<inputs, listVars>>

FeatFetchSettle ==
  /\ fpc = "fetching"
  /\ NoReactionPending
  /\ \E outcome \in {"ok", "status", "network"} :
       CASE outcome = "ok"     -> fpc' = "parsing" /\ ferr' = ferr
         [] outcome = "status" -> fpc' = "rejected" /\ ferr' = MsgStatus
         [] OTHER              -> fpc' = "rejected" /\ ferr' = MsgNetwork
  /\ UNCHANGED <<ffetches, fvalue, froot>>
  /\ UNCHANGED <<inputs, listVars>>

FeatJsonSettle ==
  /\ fpc = "parsing"
  /\ NoReactionPending
  /\ \E parsed \in BOOLEAN :
       IF ~parsed THEN fpc' = "rejected" /\ ferr' = MsgSyntax /\ fvalue' = fvalue
       ELSE IF loadProjectsThrows(doc)
         THEN fpc' = "rejected" /\ ferr' = loadProjectsError(doc) /\ fvalue' = fvalue
       ELSE fpc' = "resolved" /\ ferr' = ferr /\ fvalue' = loadProjects(doc)
  /\ UNCHANGED <<ffetches, froot>>
  /\ UNCHANGED <<inputs, listVars>>

\* loadProjects().then(projects => { ... })
FeatThen ==
  /\ fpc = "resolved"
  /\ fpc' = "done"
  /\ froot' = cardsOf(featuredList(fvalue, limit))
  /\ UNCHANGED <<ffetches, fvalue, ferr>>
  /\ UNCHANGED <<inputs, listVars>>

\* .catch(() => {})
FeatCatch ==
  /\ fpc = "rejected"
  /\ fpc' = "failed"
  /\ UNCHANGED <<ffetches, fvalue, ferr, froot>>
  /\ UNCHANGED <<inputs, listVars>>


(***************************************************************************)
(* Pages and documents.                                                    *)
(***************************************************************************)
MaxDocLen == 2

MaxSortLen == 3

MaxLimit == 2

DefaultLimit == 6

SeqsUpTo(S, n) == UNION { [1..k -> S] : k \in 0..n }

ArrayDocs(elems, n) == { [isArray |-> TRUE, items |-> it] : it \in SeqsUpTo(elems, n) }

\* a document whose top-level value is not an array, e.g. {"projects": [...]}
NonArrayDoc(elems) == { [isArray |-> FALSE, items |-> <<e>>] : e \in elems }

Doms ==
  [projectsRoot : BOOLEAN, searchInput : BOOLEAN, categorySelect : BOOLEAN,
   tagsWrap : BOOLEAN, clearBtn : BOOLEAN, countEl : BOOLEAN, featuredRoot : BOOLEAN]

FullDom ==
  [projectsRoot |-> TRUE, searchInput |-> TRUE, categorySelect |-> TRUE,
   tagsWrap |-> TRUE, clearBtn |-> TRUE, countEl |-> TRUE, featuredRoot |-> TRUE]

Slug == Str(<<"s">>)

\* records of a small portfolio
PageElems ==
  { RawRecord(Str(<<"a">>), Slug, Absent, NoTags, Absent, Absent, Absent),
    RawRecord(Str(<<"B">>), Slug, Str(<<"a"," ","x">>),
              TagsArr(<<Str(<<"x">>), Str(<<"a">>)>>), Str(<<"x">>), True, Str(<<"1">>)),
    RawRecord(Str(<<" ">>), Slug, Absent, NoTags, Absent, Absent, Absent) }

\* records that differ in what the filters read
FilterElems ==
  { RawRecord(td[1], Slug, td[2], tg, c, Absent, Absent) :
      td \in { <<Str(<<"a">>), Absent>>, <<Str(<<"B">>), Str(<<"x"," ","A">>)>> },
      tg \in { NoTags, TagsArr(<<Str(<<"a">>), Str(<<"X">>)>>) },
      c \in { Absent, Str(<<"x">>) } }

Jan == <<"2","0","2","4","-","0","1","-","0","1">>

Feb == <<"2","0","2","4","-","0","2","-","0","1">>

\* records that differ in what the sort reads
SortElems ==
  { RawRecord(Str(t), Slug, Absent, NoTags, Absent, Absent, dt) :
      t \in { <<"a">>, <<"b">> },
      dt \in { Absent, Str(Jan), Str(Feb) } }

\* elements of every shape a JSON array can hold: a well-formed record, the
\* same record with one member of another type or shape, and non-objects
Base(f) == RawRecord(Str(<<"a">>), Slug, Absent, NoTags, Absent, f, Absent)

ShapeElems ==
  { Base(Absent), Base(True), Base(Str(<<"n","o">>)) }
  \cup { [Base(Absent) EXCEPT !.title = v] :
           v \in { Absent, Null, Str(<<>>), Str(<<" ">>), Str(<<" ","b"," ">>),
                   Num(<<"0">>), Num(<<"7">>), Arr(<<>>), Obj, BadObj } }
  \cup { [Base(True) EXCEPT !.slug = v] : v \in { Absent, Str(<<" ">>), False } }
  \cup { [Base(Absent) EXCEPT !.category = v] :
           v \in { Str(<<" ">>), Str(<<" ","x">>), Arr(<<>>), Null } }
  \cup { [Base(True) EXCEPT !.tags = v] :
           v \in { TagsStr, TagsArr(<<Str(<<" ">>), Str(<<" ","t">>), Null, Arr(<<>>)>>),
                   TagsArr(<<BadObj>>) } }
  \cup { RawOf(kind) : kind \in { "null", "num", "str", "bool", "arr" } }

InitState ==
  /\ lpc = "init" /\ lfetches = 0 /\ lvalue = <<>> /\ lerr = ""
  /\ allProjects = <<>> /\ activeTag = All
  /\ searchValue = <<>> /\ catValue = <<>> /\ catOptions = <<>>
  /\ tagButtons = <<>> /\ root = <<>> /\ countText = NoCount
  /\ lastHandler = "none"
  /\ fpc = "init" /\ ffetches = 0 /\ fvalue = <<>> /\ ferr = "" /\ froot = <<>>

\* a page that mounts both views, with any subset of the optional elements
Init ==
  /\ doc \in ArrayDocs(PageElems, MaxDocLen)
  /\ dom \in Doms
  /\ limit = DefaultLimit
  /\ InitState

\* the projects page: the list view with all its controls
InitFilter ==
  /\ doc \in ArrayDocs(FilterElems, MaxDocLen)
  /\ dom = FullDom
  /\ limit = DefaultLimit
  /\ InitState

InitSort ==
  /\ doc \in ArrayDocs(SortElems, MaxSortLen)
  /\ dom = FullDom
  /\ limit = DefaultLimit
  /\ InitState

\* the home page: the featured view, mounted with some limit
InitHome ==
  /\ doc \in ArrayDocs(ShapeElems, MaxDocLen) \cup NonArrayDoc(ShapeElems)
  /\ dom = FullDom
  /\ limit \in 0..MaxLimit \cup {DefaultLimit}
  /\ InitState

NextList ==
  \/ ListMount
  \/ ListFetchSettle
  \/ ListJsonSettle
  \/ ListThen
  \/ ListCatch
  \/ TypeInput
  \/ ChangeCategory
  \/ ClickTag
  \/ ClickClear

NextFeatured ==
  \/ FeatMount
  \/ FeatFetchSettle
  \/ FeatJsonSettle
  \/ FeatThen
  \/ FeatCatch

Next == NextList \/ NextFeatured

Spec == Init /\ [][Next]_vars

SpecFilter == InitFilter /\ [][NextList]_vars

SpecSort == InitSort /\ [][NextList]_vars

SpecHome == InitHome /\ [][NextFeatured]_vars


(***************************************************************************)
(* Properties.                                                             *)
(***************************************************************************)
\* a member of a raw record that is missing, or empty after trimming
MissingOrBlank(v) == v.k \in {"absent", "null"} \/ (v.k = "str" /\ trim(v.s) = <<>>)

RawBlank(raw) == MissingOrBlank(raw.title) \/ MissingOrBlank(raw.slug)

StrictlyIncreasing(f) == \A i, j \in DOMAIN f : i < j => f[i] < f[j]

\* C1: every record of the list loadProjects returns has a non-empty title,
\* slug and category and no empty tag, and the list is, in source-document
\* order, made of normalized elements of the document none of which lacks
\* its title or slug (or has it empty after trimming).
C1_LoadedRecordsValid ==
  fpc \in {"resolved", "done"} =>
    /\ \A j \in DOMAIN fvalue :
         /\ fvalue[j].title # <<>>
         /\ fvalue[j].slug # <<>>
         /\ fvalue[j].category # <<>>
         /\ \A t \in Range(fvalue[j].tags) : t # <<>>
    /\ \E f \in [DOMAIN fvalue -> DOMAIN arrayOrEmpty(doc)] :
         /\ StrictlyIncreasing(f)
         /\ \A j \in DOMAIN fvalue :
              /\ ~RawBlank(arrayOrEmpty(doc)[f[j]])
              /\ fvalue[j] = normalizeProject(arrayOrEmpty(doc)[f[j]])

\* a document whose first record has a blank title was loaded: the second
\* record alone is returned
C1_Witness ==
  /\ fpc = "resolved"
  /\ doc.isArray /\ Len(doc.items) = 2
  /\ RawBlank(doc.items[1]) /\ ~RawBlank(doc.items[2])
  /\ doc.items[2].tags.k = "arr"
  /\ Len(fvalue) = 1

\* C2: a fetched and parsed document never makes loadProjects fail because
\* of the shape of one of its elements.
C2_NormalizeNeverFails ==
  (fpc = "rejected") => (ferr \notin {MsgNull, MsgConvert})

FetchFailures == {MsgStatus, MsgNetwork, MsgSyntax}

\* C3: when the fetch fails, the list view's region ends holding exactly one
\* notice, which contains the error's message, and no card; the featured
\* view's region holds no card and no notice; neither view fetches again.
C3_LoadFailure ==
  /\ (lpc = "failed" /\ lerr \in FetchFailures) =>
        /\ Len(root) = 1
        /\ root[1].kind = "notice"
        /\ lerr \in Range(root[1].text)
        /\ lfetches = 1
  /\ (fpc = "failed" /\ ferr \in FetchFailures) =>
        /\ \A i \in DOMAIN froot : froot[i].kind \notin {"card", "notice"}
        /\ ffetches = 1
  /\ lfetches <= 1 /\ ffetches <= 1

\* the fetch of both views was answered with a failure status
C3_Witness ==
  /\ lpc = "failed" /\ lerr = MsgStatus
  /\ fpc = "failed" /\ ferr = MsgStatus
  /\ dom.searchInput /\ searchValue # <<>>


\* the elements of seq at the positions of I, in order
RECURSIVE pickFrom(_, _, _)
pickFrom(seq, I, i) ==
  IF i > Len(seq) THEN <<>>
  ELSE IF i \in I THEN <<seq[i]>> \o pickFrom(seq, I, i + 1)
  ELSE pickFrom(seq, I, i + 1)

Pick(seq, I) == pickFrom(seq, I, 1)

\* the per-criterion sets of the filter law, as positions of the loaded list
CategorySet(C) == { i \in DOMAIN allProjects : C = All \/ allProjects[i].category = C }

TagSet(T) ==
  { i \in DOMAIN allProjects :
      T = All \/ \E k \in DOMAIN allProjects[i].tags : allProjects[i].tags[k] = T }

\* title, description, category and all tags, in lower case, one space between
Concatenation(p) ==
  toLowerCase(p.title) \o <<" ">> \o toLowerCase(p.description) \o <<" ">>
    \o toLowerCase(p.category)
    \o flatten([ k \in 1..Len(p.tags) |-> <<" ">> \o toLowerCase(p.tags[k]) ])

\* Q is empty or a case-insensitive substring of the concatenation
QuerySetAsGiven(Q) ==
  { i \in DOMAIN allProjects :
      Q = <<>> \/ includes(Concatenation(allProjects[i]), toLowerCase(Q)) }

\* the same with Q trimmed first
QuerySetTrimmed(Q) ==
  { i \in DOMAIN allProjects :
      trim(Q) = <<>> \/ includes(Concatenation(allProjects[i]), toLowerCase(trim(Q))) }

\* the three criteria applied one after the other, in the two opposite orders
CatTagQuery(Q, C, T) ==
  LET a == Pick(allProjects, CategorySet(C))
      b(p) == T = All \/ T \in Range(p.tags)
      c(p) == trim(Q) = <<>> \/ includes(Concatenation(p), toLowerCase(trim(Q)))
  IN  SelectSeq(SelectSeq(a, b), c)

QueryTagCat(Q, C, T) ==
  LET a == Pick(allProjects, QuerySetTrimmed(Q))
      b(p) == T = All \/ T \in Range(p.tags)
      c(p) == C = All \/ p.category = C
  IN  SelectSeq(SelectSeq(a, b), c)

\* C4 as stated: the visible set is the intersection of the category set,
\* the tag set and the set of records of which Q is empty or a
\* case-insensitive substring of the concatenation.
C4_FilterLawAsStated ==
  lpc = "ready" =>
    root = cardsOf(Pick(allProjects,
             CategorySet(catValue) \cap TagSet(activeTag) \cap QuerySetAsGiven(searchValue)))

\* C4: the visible set is the intersection of the category set, the tag set
\* and the set of records of which Q, trimmed of leading and trailing white
\* space, is empty or a case-insensitive substring of the title, description,
\* category and tags joined by single spaces; applying the criteria in either
\* order gives the same cards.
C4_FilterLaw ==
  lpc = "ready" =>
    /\ root = cardsOf(Pick(allProjects,
                CategorySet(catValue) \cap TagSet(activeTag) \cap QuerySetTrimmed(searchValue)))
    /\ root = cardsOf(CatTagQuery(searchValue, catValue, activeTag))
    /\ root = cardsOf(QueryTagCat(searchValue, catValue, activeTag))

\* a category, a tag and a query with a leading space are all set, and they
\* keep some of the loaded records and drop the others
C4_Witness ==
  /\ lpc = "ready"
  /\ searchValue = <<" ", "a">>
  /\ catValue # All /\ activeTag # All
  /\ Len(root) = 1 /\ Len(allProjects) = 2

LexGreater(a, b) == CompareBy(CodeUnit, a, b) > 0

C6_TitleOrderAsStated ==
  lpc = "ready" =>
    \A i, j \in DOMAIN allProjects :
      (i < j /\ allProjects[i].date = allProjects[j].date) =>
         localeCompare(allProjects[i].title, allProjects[j].title) <= 0

\* What the comparator gives (C6): two records with both dates empty are in
\* ascending order of title, whatever their order in the document; the
\* records that share a non-empty date keep their order in the document.
C6_OrderOfTheCode ==
  lpc = "ready" =>
    /\ \A i, j \in DOMAIN allProjects :
         (i < j /\ allProjects[i].date = <<>> /\ allProjects[j].date = <<>>) =>
            localeCompare(allProjects[i].title, allProjects[j].title) <= 0
    /\ \A d \in { lvalue[i].date : i \in DOMAIN lvalue } \ {<<>>} :
         LET same(p) == p.date = d
         IN  SelectSeq(allProjects, same) = SelectSeq(lvalue, same)

\* the document holds b then a without dates and then a dated record: the
\* sort exchanges the first two and puts the dated record before them
C6_OrderOfTheCodeWitness ==
  /\ lpc = "ready"
  /\ Len(lvalue) = 3
  /\ lvalue[1].title = <<"b">> /\ lvalue[1].date = <<>>
  /\ lvalue[2].title = <<"a">> /\ lvalue[2].date = <<>>
  /\ lvalue[3].date = Jan
  /\ allProjects = <<lvalue[3], lvalue[2], lvalue[1]>>


\* C7: the render made by the load handler shows every loaded record and the
\* count total / total, whatever happened while the fetch was in flight.
C7_InitialRenderShowsAll ==
  (lpc = "ready" /\ lastHandler = "load") =>
    /\ root = cardsOf(allProjects)
    /\ dom.countEl =>
         countText = [visible |-> Len(allProjects), total |-> Len(allProjects)]

\* the query, category and tag the controls of the page hold
CurrentQuery == IF dom.searchInput THEN searchValue ELSE <<>>

CurrentCategory == IF dom.categorySelect THEN catValue ELSE All

Visible(p) ==
  /\ CurrentCategory = All \/ p.category = CurrentCategory
  /\ activeTag = All \/ activeTag \in Range(p.tags)
  /\ matches(p, CurrentQuery)

Rendered ==
  /\ root = cardsOf(SelectSeq(allProjects, Visible))
  /\ dom.countEl => countText = [visible |-> Len(root), total |-> Len(allProjects)]

\* C8: once loaded, after the handler of any control event has run the cards
\* are the loaded records that pass the current filters, in the loaded
\* list's order, the count reads cards / loaded, and the loaded list is
\* still the list the load handler sorted.
C8_RenderFollowsControls ==
  lpc = "ready" =>
    /\ allProjects = sortProjects(lvalue)
    /\ Rendered

\* a control event has just been handled with a category chosen that keeps
\* one of two loaded records
C8_Witness ==
  /\ lpc = "ready"
  /\ lastHandler = "change"
  /\ catValue # All
  /\ Len(allProjects) = 2 /\ Len(root) = 1
  /\ countText = [visible |-> 1, total |-> 2]

FirstN(seq, n) == SubSeq(seq, 1, IF n <= Len(seq) THEN n ELSE Len(seq))

\* C9: the featured view renders at most limit cards: the first limit
\* featured records in document order if any record is featured, else the
\* first limit records of the loaded list.
C9_FeaturedSubset ==
  fpc = "done" =>
    /\ Len(froot) <= limit
    /\ IF \E i \in DOMAIN fvalue : fvalue[i].featured
         THEN froot = cardsOf(FirstN(Pick(fvalue, { i \in DOMAIN fvalue : fvalue[i].featured }), limit))
         ELSE froot = cardsOf(FirstN(fvalue, limit))

\* two records are featured and the limit is one: one card is rendered
C9_Witness ==
  /\ fpc = "done"
  /\ limit = 1
  /\ Len(fvalue) = 2 /\ fvalue[1].featured /\ fvalue[2].featured
  /\ froot = <<projectCard(fvalue[1])>>

\* C10: the clear action leaves the query empty, the category and the tag at
\* "All", and every loaded record rendered, whichever controls the page has.
C10_ClearResets ==
  (lpc = "ready" /\ lastHandler = "clear") =>
    /\ CurrentQuery = <<>>
    /\ CurrentCategory = All
    /\ activeTag = All
    /\ root = cardsOf(allProjects)
    /\ dom.countEl =>
         countText = [visible |-> Len(allProjects), total |-> Len(allProjects)]

\* the clear button was clicked on a page without a search input, on which
\* a tag had been chosen
C10_Witness ==
  /\ lpc = "ready" /\ lastHandler = "clear"
  /\ ~dom.searchInput /\ dom.tagsWrap /\ dom.categorySelect
  /\ Len(tagButtons) > 1
  /\ Len(allProjects) = 2

=============================================================================
